---- MODULE Spec2Model ----
(***************************************************************************)
(* State-machine model of src/app.py: the WhatsApp webhook dispatcher, the *)
(* student registration endpoint, the department resolver and the          *)
(* next-class finder, over a remote record store.                          *)
(*                                                                         *)
(* Encoding of Python values                                               *)
(*   - a string is a Text: a sequence of items, each item a word (a run of *)
(*     non-blank characters) or the single blank SP;                       *)
(*   - a store document (dict) is a function from field names to values;   *)
(*     a path holding nothing (get() returns None) is NoDoc, the function  *)
(*     with the empty domain; a value that is not a dict (a bare string in *)
(*     the store) is a function with the single field "scalar_";           *)
(*   - a date is a triple <<year, month, day>>.                            *)
(* Every handler is cut into steps at its calls to the outside (store,     *)
(* messaging platform, completion API); each call may raise.               *)
(***************************************************************************)
EXTENDS Integers, Sequences, FiniteSets, TLC

\* ---------------------------------------------------------------- bounds
\* Requests delivered over a behaviour.
MaxRequests == 3
\* Calls to the outside that raise over a behaviour.
MaxFaults == 2

\* ------------------------------------------------------------ vocabulary
SP == " "
None == "<None>"
NoDoc == [f \in {} |-> <<>>]

Handlers == {"h1", "h2"}
Senders == {"a1", "a2", "s1", "s2", "s3"}
Depts == {"SE", "CS"}
Codes == {"CS101", "CS102", "CS103"}
DEFAULT_DEPT == "SE"

\* ------------------------------------------------------------------ text
RECURSIVE LStrip(_)
LStrip(t) == IF t # <<>> /\ Head(t) = SP THEN LStrip(Tail(t)) ELSE t

RECURSIVE RStrip(_)
RStrip(t) ==
  IF t # <<>> /\ t[Len(t)] = SP THEN RStrip(SubSeq(t, 1, Len(t) - 1)) ELSE t

\* str.strip()
Strip(t) == RStrip(LStrip(t))

\* str.lower() on one word of the vocabulary
LowerWord(w) ==
  CASE w = "AdminUpdate" -> "adminupdate"
    [] w = "Next" -> "next"
    [] w = "Class" -> "class"
    [] w = "My" -> "my"
    [] w = "Courses" -> "courses"
    [] w = "SE" -> "se"
    [] w = "CS" -> "cs"
    [] w = "CS101" -> "cs101"
    [] w = "CS102" -> "cs102"
    [] w = "CS103" -> "cs103"
    [] w = "Dr" -> "dr"
    [] w = "Smith" -> "smith"
    [] w = "Prof" -> "prof"
    [] w = "Lee" -> "lee"
    [] w = "Hello" -> "hello"
    [] OTHER -> w

\* str.lower()
Lower(t) == [i \in 1..Len(t) |-> LowerWord(t[i])]

\* str.split(): the words, blanks dropped
Split(t) == SelectSeq(t, LAMBDA x : x # SP)

\* ' '.join(words)
RECURSIVE Join(_)
Join(ws) ==
  IF ws = <<>> THEN <<>>
  ELSE IF Len(ws) = 1 THEN <<ws[1]>>
  ELSE <<ws[1], SP>> \o Join(Tail(ws))

\* ', '.join(keys)
RECURSIVE JoinComma(_)
JoinComma(ws) ==
  IF ws = <<>> THEN <<>>
  ELSE IF Len(ws) = 1 THEN <<ws[1]>>
  ELSE <<ws[1], ", ">> \o JoinComma(Tail(ws))

\* ----------------------------------------------------------------- dates
IsLeap(y) == (y % 4 = 0 /\ y % 100 # 0) \/ y % 400 = 0

DaysInMonth(y, m) ==
  IF m \in {4, 6, 9, 11} THEN 30
  ELSE IF m = 2 THEN (IF IsLeap(y) THEN 29 ELSE 28)
  ELSE 31

\* The fields the pattern %Y-%m-%d reads off a word; <<>> when the word does
\* not match the pattern.
StrpFields(w) ==
  CASE w = "2025-02-20" -> <<2025, 2, 20>>
    [] w = "2025-03-01" -> <<2025, 3, 1>>
    [] w = "2025-03-10" -> <<2025, 3, 10>>
    [] w = "2025-03-20" -> <<2025, 3, 20>>
    [] w = "2025-3-5" -> <<2025, 3, 5>>
    [] w = "2025-02-30" -> <<2025, 2, 30>>
    [] w = "2025-13-01" -> <<2025, 13, 1>>
    [] OTHER -> <<>>

\* datetime.strptime(s, '%Y-%m-%d').date(); <<>> stands for the ValueError.
Strptime(t) ==
  IF Len(t) # 1 THEN <<>>
  ELSE LET f == StrpFields(t[1]) IN
       IF f = <<>> THEN <<>>
       ELSE IF f[2] \notin 1..12 THEN <<>>
       ELSE IF f[3] \notin 1..DaysInMonth(f[1], f[2]) THEN <<>>
       ELSE f

\* date < date
DateLess(a, b) ==
  \/ a[1] < b[1]
  \/ a[1] = b[1] /\ a[2] < b[2]
  \/ a[1] = b[1] /\ a[2] = b[2] /\ a[3] < b[3]

\* ------------------------------------------------------------- documents
IsDict(v) == "scalar_" \notin DOMAIN v
\* Python truthiness of a store value
Truthy(v) == DOMAIN v # {}
\* dict.get(field, default)
Get(v, f, default) == IF f \in DOMAIN v THEN v[f] ELSE default

\* The keys of a department's class node: ref.get() or {} holds the codes
\* with a value.
Keys(node) == {c \in DOMAIN node : Truthy(node[c])}

\* {**details, 'course_code': code}
WithCourseCode(details, code) ==
  [f \in DOMAIN details \cup {"course_code"} |->
     IF f = "course_code" THEN <<code>> ELSE details[f]]

\* class_date > today (a record dated today is dropped)
OnOrAfter_strict(d, today_) == DateLess(today_, d)

\* class_date >= today
OnOrAfter(d, today_) == ~DateLess(d, today_)

\* One round of the loop of get_next_class over the keys in iteration order.
RECURSIVE ScanClasses(_, _, _, _)
ScanClasses(node, order, today_, next_class) ==
  IF order = <<>> THEN next_class
  ELSE
    LET code == Head(order)
        details == node[code]
        class_date == Strptime(Get(details, "date", <<>>))
        chosen ==
          IF code \notin Keys(node) THEN next_class
          ELSE IF ~IsDict(details) THEN next_class
          ELSE IF class_date = <<>> THEN next_class
          ELSE IF OnOrAfter(class_date, today_)
                  /\ (~Truthy(next_class)
                      \/ DateLess(class_date, Strptime(next_class.date)))
               THEN WithCourseCode(details, code)
          ELSE next_class
    IN ScanClasses(node, Tail(order), today_, chosen)

\* get_next_class(department): ok tells whether the read of
\* classes/{department} returned, node is what it returned and order the
\* order of its keys. A read that raises ends in the outer except clause.
get_next_class(ok, node, order, today_) ==
  IF ok THEN ScanClasses(node, order, today_, NoDoc) ELSE NoDoc

\* get_department(whatsapp): ok tells whether the read of students/{whatsapp}
\* returned and data is what it returned.
get_department(ok, data) ==
  IF ok /\ Truthy(data) /\ IsDict(data) /\ "department" \in DOMAIN data
  THEN data.department
  ELSE DEFAULT_DEPT


\* ------------------------------------------------------ reply literals
ERR_FORMAT == <<"Error: Invalid adminupdate format.">>
NO_UPCOMING == <<"No upcoming classes found.">>
NO_COURSES == <<"No courses found for your department.">>
APOLOGY == <<"Sorry, I could not process your request right now.">>
WELCOME == <<"Hello! My name is Zibot, your helpful assistant for Software Engineering students at SDU. Ask me about your schedule, classes, or any SE topic!">>
NA == <<"N/A">>

UpdatedText(code) == <<"Schedule updated for ", code, ".">>

NextClassText(nc) ==
  <<"Your next class is ">> \o nc.course_code \o <<" on ">> \o nc.date
    \o <<" at ">> \o nc.time \o <<" with ">> \o nc.lecturer \o <<".">>

CourseListText(keys) ==
  <<"Your courses: ">> \o JoinComma(keys)
    \o <<"\nReply with a course code to get details.">>

CourseDetailText(body, details) ==
  <<"Course: ">> \o body
    \o <<"\nDate: ">> \o Get(details, "date", NA)
    \o <<"\nTime: ">> \o Get(details, "time", NA)
    \o <<"\nLecturer: ">> \o Get(details, "lecturer", NA)

\* ----------------------------------------------------- webhook routing
\* a truthy admin_ref.get()
IsTrueSentinel_truthy(v) == v \notin {"absent", "false"}

\* admin_ref.get() is True
IsTrueSentinel(v) == v = "true"

\* body.lower().startswith('adminupdate')
StartsWithAdminKeyword(body) ==
  body # <<>> /\ LowerWord(body[1]) \in {"adminupdate", "adminupdates"}

IsNextClassPhrase(body) ==
  Lower(body) \in { <<"next", SP, "class">>,
                    <<"when", SP, "is", SP, "my", SP, "next", SP, "class?">> }

IsMyCoursesPhrase(body) == Lower(body) = <<"my", SP, "courses">>

\* The if / elif / elif / else chain of the dispatcher.
Route(body, is_admin) ==
  IF StartsWithAdminKeyword(body) /\ is_admin THEN "admin"
  ELSE IF IsNextClassPhrase(body) THEN "next"
  ELSE IF IsMyCoursesPhrase(body) THEN "courses"
  ELSE "other"

\* _, dept, code, date, time, *lecturer = body.split() succeeds
AdminArgsOk(body) == Len(Split(body)) >= 5

\* The record with the first remaining token alone as lecturer
AdminRecord_firstToken(body) ==
  LET w == Split(body) IN
  [date |-> <<w[4]>>, time |-> <<w[5]>>,
   lecturer |-> IF Len(w) >= 6 THEN <<w[6]>> ELSE <<>>]

\* The record the admin command writes.
AdminRecord(body) ==
  LET w == Split(body) IN
  [date |-> <<w[4]>>, time |-> <<w[5]>>,
   lecturer |-> Join(SubSeq(w, 6, Len(w)))]

AdminDept(body) == Split(body)[2]
AdminCode(body) == Split(body)[3]

\* ref.update(value): the fields of value laid over the old document
StoreSet_update(old, value) ==
  [f \in DOMAIN old \cup DOMAIN value |->
     IF f \in DOMAIN value THEN value[f] ELSE old[f]]

\* ref.set(value): the document at the path afterwards.
StoreSet(old, value) == value

\* The department whose classes a branch reads.
LookupDept(route, dept) == IF route = "next" THEN DEFAULT_DEPT ELSE dept

\* The else branch without its final return
BranchReturns_elseFalls(route) == route \in {"admin", "next", "courses"}

\* Every branch of the chain ends in return "OK", 200.
BranchReturns(route) ==
  route \in {"admin", "next", "courses", "detail", "assistant"}

\* return "OK", 200
WebhookOk == [status |-> 200, body |-> "OK"]

\* An exception that leaves the dispatcher as a server error.
ExceptReturn_raise == [status |-> 500, body |-> "Internal Server Error"]

\* The except clause around the whole dispatcher and the return after it:
\* what a request whose handling raised is answered with.
ExceptReturn == WebhookOk

\* The envelope data["entry"][0]["changes"][0]["value"].get("messages"),
\* then messages[0]["from"] and ["text"]["body"]: what reading it gives.
ParseEnvelope(shape) ==
  CASE shape = "text" -> "message"
    [] shape = "no_messages" -> "noop"
    [] shape = "empty_messages" -> "noop"
    [] OTHER -> "raise"

\* not whatsapp
RegisterMissing_whatsappOnly(data) == Get(data, "whatsapp", None) \in {None, ""}

\* not whatsapp or not department
RegisterMissing(data) ==
  Get(data, "whatsapp", None) \in {None, ""}
    \/ Get(data, "department", None) \in {None, ""}


\* ----------------------------------------------------------------- state
VARIABLES
  admins,      \* admins/{id}: the value stored, as the word Python reads
  students,    \* students/{id}: a document
  classes,     \* classes/{dept}/{code}: a document
  introduced,  \* users/{id}/introduced
  usersOps,    \* the operations performed on users/{id}/introduced
  keyOrder,    \* the order in which the store returns the keys of a node
  today,       \* datetime.now().date()
  pc,          \* per handler: where it stands
  req,         \* per handler: the request it serves
  loc,         \* per handler: its local variables
  sent,        \* per handler: the messages the platform accepted, in order
  resp,        \* per handler: the HTTP response returned
  nreq,        \* requests delivered so far
  nfaults,     \* outside calls that raised so far
  ncCall       \* the last direct call of get_next_class and its result

vars == <<admins, students, classes, introduced, usersOps, keyOrder, today,
          pc, req, loc, sent, resp, nreq, nfaults, ncCall>>

store == <<admins, students, classes, introduced, usersOps, keyOrder, today>>

\* ---------------------------------------------------------------- inputs
B_upd1 == <<"adminupdate", SP, "SE", SP, "CS101", SP, "2025-03-10", SP,
            "10:00", SP, "Dr", SP, SP, "Smith">>
B_upd2 == <<SP, "AdminUpdate", SP, "SE", SP, "CS101", SP, "2025-03-20", SP,
            "12:00", SP, "Prof", SP, "Lee", SP>>
B_updNoLecturer == <<"adminupdates", SP, "CS", SP, "CS102", SP, "tomorrow",
                     SP, "09:00">>
B_updShort == <<"adminupdate", SP, "SE", SP, "CS101">>
B_next == <<"Next", SP, "Class", SP>>
B_when == <<"when", SP, "is", SP, "my", SP, "next", SP, "class?">>
B_courses == <<"My", SP, "Courses">>
B_code1 == <<"CS101">>
B_code3 == <<SP, "CS103">>
B_lower == <<"cs101">>
B_hello == <<"Hello">>

Bodies == {B_upd1, B_upd2, B_updNoLecturer, B_updShort, B_next, B_when,
           B_courses, B_code1, B_code3, B_lower, B_hello}

\* message.content values the completion API returns
Contents == { <<SP, "Zibot", SP, "here", SP>> }

NoReq == [endpoint |-> "", ctype |-> "", shape |-> "", from |-> "",
          body |-> <<>>, data |-> NoDoc]

WebhookRequests ==
  { [NoReq EXCEPT !.endpoint = "webhook", !.ctype = "text/plain",
                  !.shape = "text", !.from = "s1", !.body = B_hello] }
  \cup { [NoReq EXCEPT !.endpoint = "webhook", !.ctype = "application/json",
                       !.shape = sh] :
           sh \in {"invalid", "null", "no_entry", "no_messages", "non_text"} }
  \cup { [NoReq EXCEPT !.endpoint = "webhook", !.ctype = "application/json",
                       !.shape = "text", !.from = s, !.body = b] :
           s \in Senders \ {"s3"}, b \in Bodies }
  \cup { [NoReq EXCEPT !.endpoint = "webhook", !.ctype = "application/json",
                       !.shape = "text", !.from = "s3", !.body = b] :
           b \in {B_upd1, B_updNoLecturer} }

RegisterData ==
  { [whatsapp |-> "s2", department |-> "CS"],
    [whatsapp |-> "s1", department |-> "SE"],
    [whatsapp |-> "s2", department |-> ""],
    [whatsapp |-> "", department |-> "CS"],
    [department |-> "CS"],
    [whatsapp |-> "s1"],
    NoDoc }

RegisterRequests ==
  { [NoReq EXCEPT !.endpoint = "register", !.ctype = "application/json",
                  !.shape = "object", !.data = d] : d \in RegisterData }

NoResp == [status |-> 0, body |-> ""]

NoLoc == [route |-> "", dept |-> "", msg |-> <<>>, fallback |-> <<>>,
          faults |-> {}, shown |-> {}, asked |-> FALSE]

InitAdmins ==
  [s \in Senders |->
     CASE s = "a1" -> "true" [] s = "a2" -> "true" [] s = "s1" -> "one"
       [] s = "s3" -> "false" [] OTHER -> "absent"]

InitStudents ==
  [s \in Senders |-> IF s = "s1" THEN [department |-> "CS"] ELSE NoDoc]

InitClasses ==
  [d \in Depts |-> [c \in Codes |->
     CASE d = "SE" /\ c = "CS101" ->
            [date |-> <<"2025-02-20">>, time |-> <<"08:00">>,
             lecturer |-> <<"Dr", SP, "Smith">>, room |-> <<"B12">>]
       [] d = "SE" /\ c = "CS102" ->
            [date |-> <<"2025-03-20">>, time |-> <<"14:00">>,
             lecturer |-> <<"Prof", SP, "Lee">>]
       [] d = "SE" /\ c = "CS103" -> [scalar_ |-> <<"TBA">>]
       [] d = "CS" /\ c = "CS101" -> [date |-> <<"2025-03-10">>]
       [] OTHER -> NoDoc]]

SortedOrder == <<"CS101", "CS102", "CS103">>

NoCall == [called |-> FALSE, read_ok |-> FALSE, department |-> "",
           result |-> NoDoc]

Init ==
  /\ admins = InitAdmins
  /\ students = InitStudents
  /\ classes = InitClasses
  /\ introduced = [s \in Senders |-> FALSE]
  /\ usersOps = {}
  /\ keyOrder = SortedOrder
  /\ today = <<2025, 3, 1>>
  /\ pc = [h \in Handlers |-> "idle"]
  /\ req = [h \in Handlers |-> NoReq]
  /\ loc = [h \in Handlers |-> NoLoc]
  /\ sent = [h \in Handlers |-> <<>>]
  /\ resp = [h \in Handlers |-> NoResp]
  /\ nreq = 0
  /\ nfaults = 0
  /\ ncCall = NoCall

\* ----------------------------------------------------------- the handlers
Body(h) == Strip(req[h].body)

\* An outside call either returns or raises.
Outcome(ok) ==
  /\ ok \in BOOLEAN
  /\ ~ok => nfaults < MaxFaults
  /\ nfaults' = IF ok THEN nfaults ELSE nfaults + 1

Faulted(h, kind) == [loc[h] EXCEPT !.faults = @ \cup {kind}]

\* The handler returns r.
Return(h, r) ==
  /\ pc' = [pc EXCEPT ![h] = "done"]
  /\ resp' = [resp EXCEPT ![h] = r]

Accept(h, r) ==
  /\ pc[h] \in {"idle", "done"}
  /\ nreq < MaxRequests
  /\ nreq' = nreq + 1
  /\ req' = [req EXCEPT ![h] = r]
  /\ loc' = [loc EXCEPT ![h] = NoLoc]
  /\ sent' = [sent EXCEPT ![h] = <<>>]

\* POST /webhook up to the first store call (lines 105-120).
DeliverWebhook(h, r) ==
  /\ r \in WebhookRequests
  /\ Accept(h, r)
  /\ IF r.ctype # "application/json"
       THEN Return(h, [status |-> 415,
                       body |-> "Content-Type must be application/json"])
     ELSE IF r.shape = "invalid"
       THEN Return(h, [status |-> 400, body |-> "Bad Request"])
     ELSE IF ParseEnvelope(r.shape) = "message"
       THEN /\ pc' = [pc EXCEPT ![h] = "admin_get"]
            /\ resp' = [resp EXCEPT ![h] = NoResp]
     ELSE IF ParseEnvelope(r.shape) = "raise"
       THEN Return(h, ExceptReturn)
     ELSE Return(h, WebhookOk)
  /\ UNCHANGED <<store, nfaults, ncCall>>

\* admin_ref.get() and the choice of the branch (lines 122-125, 140, 153).
AdminCheck(h, ok) ==
  /\ pc[h] = "admin_get"
  /\ Outcome(ok)
  /\ IF ~ok
       THEN /\ Return(h, ExceptReturn)
            /\ loc' = [loc EXCEPT ![h] = Faulted(h, "store")]
     ELSE
       LET route == Route(Body(h), IsTrueSentinel(admins[req[h].from])) IN
       /\ resp' = resp
       /\ IF route = "admin" /\ ~AdminArgsOk(Body(h))
            THEN /\ pc' = [pc EXCEPT ![h] = "send"]
                 /\ loc' = [loc EXCEPT ![h].route = route,
                                       ![h].msg = ERR_FORMAT]
          ELSE /\ pc' = [pc EXCEPT ![h] =
                           CASE route = "admin" -> "class_set"
                             [] OTHER -> "get_dept"]
               /\ loc' = [loc EXCEPT ![h].route = route]
  /\ UNCHANGED <<store, req, sent, nreq, ncCall>>

\* class_ref.set({...}) of the admin branch (lines 127-134).
ClassSet(h, ok) ==
  /\ pc[h] = "class_set"
  /\ Outcome(ok)
  /\ pc' = [pc EXCEPT ![h] = "send"]
  /\ LET d == AdminDept(Body(h))
         c == AdminCode(Body(h)) IN
     IF ok
       THEN /\ classes' = [classes EXCEPT
                             ![d][c] = StoreSet(@, AdminRecord(Body(h)))]
            /\ loc' = [loc EXCEPT ![h].msg = UpdatedText(c),
                                  ![h].fallback = ERR_FORMAT]
     ELSE /\ classes' = classes
          /\ loc' = [loc EXCEPT ![h] =
                       [Faulted(h, "store") EXCEPT !.msg = ERR_FORMAT]]
  /\ UNCHANGED <<admins, students, introduced, usersOps, keyOrder, today,
                 req, sent, resp, nreq, ncCall>>

\* dept = get_department(from_number) (lines 141, 154, 165).
GetDepartment(h, ok) ==
  /\ pc[h] = "get_dept"
  /\ Outcome(ok)
  /\ LET dept == get_department(ok, students[req[h].from])
         l == IF ok THEN loc[h] ELSE Faulted(h, "store") IN
     /\ loc' = [loc EXCEPT ![h] = [l EXCEPT !.dept = dept]]
     /\ pc' = [pc EXCEPT ![h] =
                 CASE loc[h].route = "next" /\ dept = DEFAULT_DEPT -> "auto_reg"
                   [] loc[h].route = "next" -> "next_read"
                   [] loc[h].route = "courses" -> "list_read"
                   [] OTHER -> "detail_read"]
  /\ UNCHANGED <<store, req, sent, resp, nreq, ncCall>>

\* ref.set({'department': 'SE'}) (lines 143-145).
AutoRegister(h, ok) ==
  /\ pc[h] = "auto_reg"
  /\ Outcome(ok)
  /\ IF ok
       THEN /\ students' = [students EXCEPT ![req[h].from] =
                              StoreSet(@, [department |-> DEFAULT_DEPT])]
            /\ pc' = [pc EXCEPT ![h] = "next_read"]
            /\ UNCHANGED <<loc, resp>>
     ELSE /\ students' = students
          /\ Return(h, ExceptReturn)
          /\ loc' = [loc EXCEPT ![h] = Faulted(h, "store")]
  /\ UNCHANGED <<admins, classes, introduced, usersOps, keyOrder, today,
                 req, sent, nreq, ncCall>>

\* next_class = get_next_class('SE') and the reply built from it
\* (lines 146-150).
NextClassRead(h, ok) ==
  /\ pc[h] = "next_read"
  /\ Outcome(ok)
  /\ LET d == LookupDept(loc[h].route, loc[h].dept)
         nc == get_next_class(ok, classes[d], keyOrder, today)
         l == IF ok THEN loc[h] ELSE Faulted(h, "store") IN
     IF Truthy(nc) /\ ~({"time", "lecturer"} \subseteq DOMAIN nc)
       THEN /\ Return(h, ExceptReturn)
            /\ loc' = [loc EXCEPT ![h] = l]
     ELSE /\ pc' = [pc EXCEPT ![h] = "send"]
          /\ resp' = resp
          /\ loc' = [loc EXCEPT ![h] =
               IF Truthy(nc)
                 THEN [l EXCEPT !.msg = NextClassText(nc),
                                !.shown = {<<d, nc.course_code[1]>>}]
               ELSE [l EXCEPT !.msg = NO_UPCOMING]]
  /\ UNCHANGED <<store, req, sent, nreq, ncCall>>


\* The keys of a node as a list, in the order the store returns them.
KeyList(node, order) == SelectSeq(order, LAMBDA c : c \in Keys(node))

\* classes = ref.get() or {} and the course list (lines 155-161).
CourseListRead(h, ok) ==
  /\ pc[h] = "list_read"
  /\ Outcome(ok)
  /\ IF ~ok
       THEN /\ Return(h, ExceptReturn)
            /\ loc' = [loc EXCEPT ![h] = Faulted(h, "store")]
     ELSE
       LET d == LookupDept(loc[h].route, loc[h].dept)
           course_list == KeyList(classes[d], keyOrder) IN
       /\ pc' = [pc EXCEPT ![h] = "send"]
       /\ resp' = resp
       /\ loc' = [loc EXCEPT ![h] =
            IF course_list # <<>>
              THEN [@ EXCEPT !.msg = CourseListText(course_list),
                             !.shown = {<<d, c>> : c \in Keys(classes[d])}]
            ELSE [@ EXCEPT !.msg = NO_COURSES]]
  /\ UNCHANGED <<store, req, sent, nreq, ncCall>>

\* body in classes
BodyInClasses(body, node) == Len(body) = 1 /\ body[1] \in Keys(node)

\* classes = ref.get() or {} and the course-code match (lines 166-171).
CourseDetailRead(h, ok) ==
  /\ pc[h] = "detail_read"
  /\ Outcome(ok)
  /\ IF ~ok
       THEN /\ Return(h, ExceptReturn)
            /\ loc' = [loc EXCEPT ![h] = Faulted(h, "store")]
     ELSE
       LET d == LookupDept(loc[h].route, loc[h].dept)
           node == classes[d] IN
       IF BodyInClasses(Body(h), node)
         THEN LET class_details == node[Body(h)[1]] IN
              IF IsDict(class_details)
                THEN /\ pc' = [pc EXCEPT ![h] = "send"]
                     /\ resp' = resp
                     /\ loc' = [loc EXCEPT
                          ![h].route = "detail",
                          ![h].msg = CourseDetailText(Body(h), class_details),
                          ![h].shown = {<<d, Body(h)[1]>>}]
              ELSE /\ Return(h, ExceptReturn)
                   /\ loc' = [loc EXCEPT ![h].route = "detail"]
       ELSE /\ pc' = [pc EXCEPT ![h] = "assist"]
            /\ resp' = resp
            /\ loc' = [loc EXCEPT ![h].route = "assistant"]
  /\ UNCHANGED <<store, req, sent, nreq, ncCall>>

\* client.chat.completions.create(...) and .content.strip() (lines 173-184).
Assist(h, ok, content) ==
  /\ pc[h] = "assist"
  /\ content \in Contents
  /\ Outcome(ok)
  /\ pc' = [pc EXCEPT ![h] = "send"]
  /\ loc' = [loc EXCEPT ![h] =
       IF ok THEN [@ EXCEPT !.asked = TRUE, !.msg = Strip(content),
                            !.fallback = APOLOGY]
       ELSE [Faulted(h, "assist") EXCEPT !.asked = TRUE, !.msg = APOLOGY]]
  /\ UNCHANGED <<store, req, sent, resp, nreq, ncCall>>

\* send_whatsapp_message(from_number, msg), the except clause it is in, the
\* return that follows, and the introduction flow after the chain
\* (lines 135-138, 148-151, 159-162, 170-171, 182-193).
Send(h, ok) ==
  /\ pc[h] = "send"
  /\ Outcome(ok)
  /\ LET from == req[h].from
         out == Append(sent[h], [to |-> from, text |-> loc[h].msg]) IN
     IF ~ok
       THEN /\ UNCHANGED <<sent, introduced, usersOps>>
            /\ IF loc[h].fallback # <<>>
                 THEN /\ loc' = [loc EXCEPT ![h] =
                            [Faulted(h, "send") EXCEPT !.msg = loc[h].fallback,
                                                       !.fallback = <<>>]]
                      /\ UNCHANGED <<pc, resp>>
               ELSE /\ loc' = [loc EXCEPT ![h] = Faulted(h, "send")]
                    /\ Return(h, ExceptReturn)
     ELSE /\ loc' = loc
          /\ Return(h, WebhookOk)
          /\ IF BranchReturns(loc[h].route)
               THEN /\ sent' = [sent EXCEPT ![h] = out]
                    /\ UNCHANGED <<introduced, usersOps>>
             ELSE IF ~introduced[from]
               THEN /\ sent' = [sent EXCEPT ![h] =
                                  Append(out, [to |-> from, text |-> WELCOME])]
                    /\ introduced' = [introduced EXCEPT ![from] = TRUE]
                    /\ usersOps' = usersOps \cup {"get", "set"}
             ELSE /\ sent' = [sent EXCEPT ![h] = out]
                  /\ introduced' = introduced
                  /\ usersOps' = usersOps \cup {"get"}
  /\ UNCHANGED <<admins, students, classes, keyOrder, today, req, nreq,
                 ncCall>>

\* POST /register-student up to the store call (lines 201-205).
DeliverRegister(h, r) ==
  /\ r \in RegisterRequests
  /\ Accept(h, r)
  /\ IF RegisterMissing(r.data)
       THEN Return(h, [status |-> 400,
                       body |-> "Missing whatsapp or department"])
     ELSE /\ pc' = [pc EXCEPT ![h] = "reg_set"]
          /\ resp' = [resp EXCEPT ![h] = NoResp]
  /\ UNCHANGED <<store, nfaults, ncCall>>

\* ref.set({'department': department}) and the response (lines 206-208).
RegisterSet(h, ok) ==
  /\ pc[h] = "reg_set"
  /\ Outcome(ok)
  /\ IF ok
       THEN /\ students' = [students EXCEPT
                 ![Get(req[h].data, "whatsapp", None)] =
                    StoreSet(@, [department |->
                                   Get(req[h].data, "department", None)])]
            /\ Return(h, [status |-> 200, body |-> "Student registered."])
            /\ loc' = loc
     ELSE /\ students' = students
          /\ Return(h, [status |-> 500, body |-> "Internal Server Error"])
          /\ loc' = [loc EXCEPT ![h] = Faulted(h, "store")]
  /\ UNCHANGED <<admins, classes, introduced, usersOps, keyOrder, today,
                 req, sent, nreq, ncCall>>

\* One handler at a time: requests served one after the other.
Serial == {"h1"}

Next ==
  \/ \E h \in Serial, r \in WebhookRequests : DeliverWebhook(h, r)
  \/ \E h \in Serial, r \in RegisterRequests : DeliverRegister(h, r)
  \/ \E h \in Serial, ok \in BOOLEAN : AdminCheck(h, ok)
  \/ \E h \in Serial, ok \in BOOLEAN : ClassSet(h, ok)
  \/ \E h \in Serial, ok \in BOOLEAN : GetDepartment(h, ok)
  \/ \E h \in Serial, ok \in BOOLEAN : AutoRegister(h, ok)
  \/ \E h \in Serial, ok \in BOOLEAN : NextClassRead(h, ok)
  \/ \E h \in Serial, ok \in BOOLEAN : CourseListRead(h, ok)
  \/ \E h \in Serial, ok \in BOOLEAN : CourseDetailRead(h, ok)
  \/ \E h \in Serial, ok \in BOOLEAN, content \in Contents :
       Assist(h, ok, content)
  \/ \E h \in Serial, ok \in BOOLEAN : Send(h, ok)
  \/ \E h \in Serial, ok \in BOOLEAN : RegisterSet(h, ok)

Spec == Init /\ [][Next]_vars

\* Two handlers running in parallel, on the requests that write the store.
ParallelWebhookRequests ==
  { r \in WebhookRequests :
      /\ r.shape = "text"
      /\ r.ctype = "application/json"
      /\ \/ r.from = "a1" /\ r.body = B_upd1
         \/ r.from = "a2" /\ r.body = B_upd2
         \/ r.from \in {"s1", "s2"} /\ r.body = B_next }

ParallelRegisterRequests ==
  { r \in RegisterRequests : ~RegisterMissing(r.data) }

NextParallel ==
  \/ \E h \in Handlers, r \in ParallelWebhookRequests : DeliverWebhook(h, r)
  \/ \E h \in Handlers, r \in ParallelRegisterRequests : DeliverRegister(h, r)
  \/ \E h \in Handlers, ok \in BOOLEAN : AdminCheck(h, ok)
  \/ \E h \in Handlers, ok \in BOOLEAN : ClassSet(h, ok)
  \/ \E h \in Handlers, ok \in BOOLEAN : GetDepartment(h, ok)
  \/ \E h \in Handlers, ok \in BOOLEAN : AutoRegister(h, ok)
  \/ \E h \in Handlers, ok \in BOOLEAN : NextClassRead(h, ok)
  \/ \E h \in Handlers, ok \in BOOLEAN : Send(h, ok)
  \/ \E h \in Handlers, ok \in BOOLEAN : RegisterSet(h, ok)

SpecParallel == Init /\ [][NextParallel]_vars


\* ------------------------------------------- get_next_class on its own
\* Documents a class key may hold.
ClassDocs ==
  { NoDoc,
    [scalar_ |-> <<"TBA">>],
    [date |-> <<"2025-02-20">>, time |-> <<"08:00">>, lecturer |-> <<"Lee">>],
    [date |-> <<"2025-03-01">>, time |-> <<"09:00">>, lecturer |-> <<"Lee">>],
    [date |-> <<"2025-03-10">>, time |-> <<"10:00">>, lecturer |-> <<"Lee">>],
    [date |-> <<"2025-03-10">>, time |-> <<"11:00">>],
    [date |-> <<"2025-3-5">>, time |-> <<"12:00">>, lecturer |-> <<"Lee">>],
    [date |-> <<"2025-02-30">>, time |-> <<"13:00">>, lecturer |-> <<"Lee">>],
    [date |-> <<"10/03/2025">>, time |-> <<"14:00">>, lecturer |-> <<"Lee">>],
    [time |-> <<"15:00">>, lecturer |-> <<"Lee">>] }

Orders ==
  { o \in [1..Cardinality(Codes) -> Codes] :
      \A i, j \in DOMAIN o : i # j => o[i] # o[j] }

InitNextClass ==
  /\ admins = InitAdmins
  /\ students = InitStudents
  /\ \E node \in [Codes -> ClassDocs] :
       classes = [d \in Depts |-> IF d = "SE" THEN node ELSE InitClasses[d]]
  /\ introduced = [s \in Senders |-> FALSE]
  /\ usersOps = {}
  /\ keyOrder \in Orders
  /\ today \in { <<2025, 3, 1>>, <<2025, 3, 10>> }
  /\ pc = [h \in Handlers |-> "idle"]
  /\ req = [h \in Handlers |-> NoReq]
  /\ loc = [h \in Handlers |-> NoLoc]
  /\ sent = [h \in Handlers |-> <<>>]
  /\ resp = [h \in Handlers |-> NoResp]
  /\ nreq = 0
  /\ nfaults = 0
  /\ ncCall = NoCall

\* A call get_next_class(d).
FindNextClass(d, ok) ==
  /\ Outcome(ok)
  /\ ncCall' = [called |-> TRUE, read_ok |-> ok, department |-> d,
                result |-> get_next_class(ok, classes[d], keyOrder, today)]
  /\ UNCHANGED <<store, pc, req, loc, sent, resp, nreq>>

NextNextClass == \E d \in Depts, ok \in BOOLEAN : FindNextClass(d, ok)

SpecNextClass == InitNextClass /\ [][NextNextClass]_vars


\* ================================================================ claims

\* ---- helpers of the claims ---------------------------------------------
\* The request of handler h is a webhook POST carrying a text message.
IsTextMessage(h) ==
  /\ req[h].endpoint = "webhook"
  /\ req[h].ctype = "application/json"
  /\ req[h].shape = "text"

\* The whitespace-separated tokens of the message as it was received.
Tokens(h) == Split(req[h].body)

\* The message opens with the admin-command keyword, in any letter case.
HasAdminKeyword(h) ==
  Tokens(h) # <<>> /\ Tokens(h)[1] \in {"adminupdate", "AdminUpdate", "adminupdates"}

\* The tokens after the fifth, joined by single blanks.
LecturerGiven(w) ==
  IF Len(w) <= 5 THEN <<>>
  ELSE [i \in 1..(2 * (Len(w) - 5) - 1) |->
          IF i % 2 = 1 THEN w[5 + (i + 1) \div 2] ELSE SP]

\* The {date, time, lecturer} triple the command of handler h gives.
RecordGiven(h) ==
  [date |-> <<Tokens(h)[4]>>, time |-> <<Tokens(h)[5]>>,
   lecturer |-> LecturerGiven(Tokens(h))]

Reply(h, text) == [to |-> req[h].from, text |-> text]

\* ---- C1 ---------------------------------------------------------------
\* C1: a POST to /webhook with a JSON content type and a body that parses as
\* JSON is answered 200 "OK" whatever the payload holds and whichever outside
\* call raised while it was handled; until it is answered no response exists,
\* so no other status is ever produced for it.
C1_AlwaysOk ==
  \A h \in Handlers :
    (req[h].endpoint = "webhook" /\ req[h].ctype = "application/json"
       /\ req[h].shape # "invalid")
    => IF pc[h] = "done" THEN resp[h] = [status |-> 200, body |-> "OK"]
       ELSE resp[h] = NoResp

\* An admin command whose store write raised and whose error reply raised
\* too has been answered.
C1_Witness ==
  \E h \in Handlers :
    /\ IsTextMessage(h) /\ pc[h] = "done"
    /\ loc[h].route = "admin"
    /\ loc[h].faults = {"store", "send"}
    /\ resp[h].status = 200

\* ---- C2 ---------------------------------------------------------------
\* C2: when the sender's admin flag is exactly true and the message is the
\* admin keyword followed by department, code, date, time and lecturer
\* tokens, and no outside call raises, the handler writes the class record:
\* the write leaves classes/{department}/{code} equal to exactly the given
\* {date, time, lecturer} (lecturer tokens joined by single blanks, earlier
\* fields gone), changes no other class record and no student record, and the
\* one reply sent is "Schedule updated for {code}.".
C2_AdminUpdate ==
  [][\A h \in Handlers :
       (IsTextMessage(h) /\ admins[req[h].from] = "true" /\ HasAdminKeyword(h)
          /\ Len(Tokens(h)) >= 6 /\ loc'[h].faults = {} /\ req'[h] = req[h])
       => /\ pc[h] = "admin_get" /\ pc'[h] # pc[h] => pc'[h] = "class_set"
          /\ pc[h] = "class_set" /\ pc'[h] # pc[h] =>
               /\ classes' = [classes EXCEPT
                    ![Tokens(h)[2]][Tokens(h)[3]] = RecordGiven(h)]
               /\ students' = students
          /\ pc[h] = "send" /\ pc'[h] # pc[h] =>
               /\ pc'[h] = "done"
               /\ sent'[h] = <<Reply(h, <<"Schedule updated for ",
                                          Tokens(h)[3], ".">>)>>
    ]_vars

\* The command of the spec's example has replaced a record that held a
\* fourth field, and the confirmation is out.
C2_Witness ==
  \E h \in Handlers :
    /\ IsTextMessage(h) /\ pc[h] = "done" /\ req[h].from = "a1"
    /\ req[h].body = B_upd1 /\ loc[h].faults = {}
    /\ "room" \in DOMAIN InitClasses["SE"]["CS101"]
    /\ classes["SE"]["CS101"] =
         [date |-> <<"2025-03-10">>, time |-> <<"10:00">>,
          lecturer |-> <<"Dr", SP, "Smith">>]
    /\ sent[h] = <<Reply(h, <<"Schedule updated for ", "CS101", ".">>)>>

\* ---- C3 ---------------------------------------------------------------
\* C3: a sender whose admins/{id} value is not exactly true changes no class
\* record: every step that changes a class record is the store write of a
\* handler whose sender's value is true. The admin-command text of such a
\* sender goes to the course-code / assistant branch.
C3_NonAdmin ==
  [][/\ classes' # classes =>
          \E h \in Handlers :
            /\ IsTextMessage(h) /\ pc[h] = "class_set" /\ pc'[h] # pc[h]
            /\ admins[req[h].from] = "true"
     /\ \A h \in Handlers :
          (IsTextMessage(h) /\ admins[req[h].from] # "true"
             /\ HasAdminKeyword(h) /\ req'[h] = req[h])
          => /\ pc'[h] \notin {"class_set", "auto_reg", "next_read", "list_read"}
             /\ pc[h] = "admin_get" /\ pc'[h] # pc[h] /\ loc'[h].faults = {}
                  => pc'[h] = "get_dept" /\ loc'[h].route = "other"
             /\ loc'[h].route \in {"", "other", "detail", "assistant"}
    ]_vars

\* A sender whose admin value is the number 1 sent a complete admin command:
\* the assistant answered it and the class records are as they were.
C3_Witness ==
  \E h \in Handlers :
    /\ IsTextMessage(h) /\ pc[h] = "done" /\ req[h].from = "s1"
    /\ admins["s1"] = "one"
    /\ req[h].body = B_upd1 /\ loc[h].faults = {}
    /\ loc[h].route = "assistant" /\ Len(sent[h]) = 1
    /\ classes = InitClasses

\* ---- C4 ---------------------------------------------------------------
\* C4: the class records shown in a reply (next class, course list, course
\* detail) belong to the department the Department Resolver returned for the
\* sender.
C4_DepartmentScoped ==
  \A h \in Handlers :
    sent[h] # <<>> => \A shown \in loc[h].shown : shown[1] = loc[h].dept

\* ---- C5 ---------------------------------------------------------------
Pos(c) == CHOOSE i \in DOMAIN keyOrder : keyOrder[i] = c

\* A record of the node that counts: a mapping whose date parses and is
\* today or later.
Upcoming(node, c) ==
  /\ Truthy(node[c])
  /\ IsDict(node[c])
  /\ "date" \in DOMAIN node[c]
  /\ Strptime(node[c].date) # <<>>
  /\ ~DateLess(Strptime(node[c].date), today)

\* C5: a call get_next_class(department) whose store read returns gives, among
\* the department's records that are mappings with a date that parses as
\* %Y-%m-%d and is today or later, the one with the earliest date, the first
\* in iteration order among those sharing it, with its key added as
\* course_code and its fields unchanged; it gives nothing exactly when no
\* record counts. Records that are not mappings, have no date or a date that
\* does not parse, or are past-dated never are the result and never change it.
C5_NextClass ==
  (ncCall.called /\ ncCall.read_ok) =>
    LET node == classes[ncCall.department]
        r == ncCall.result
        E == {c \in Codes : Upcoming(node, c)}
    IN IF E = {} THEN r = NoDoc
       ELSE \E c \in E :
              /\ \A c2 \in E :
                   /\ ~DateLess(Strptime(node[c2].date), Strptime(node[c].date))
                   /\ Strptime(node[c2].date) = Strptime(node[c].date)
                        => Pos(c) <= Pos(c2)
              /\ DOMAIN r = DOMAIN node[c] \cup {"course_code"}
              /\ r.course_code = <<c>>
              /\ \A f \in DOMAIN node[c] \ {"course_code"} : r[f] = node[c][f]

\* Two records share the earliest upcoming date, the later key in sorted
\* order comes first in iteration order, and a third record has a date that
\* does not parse: the call returned the first of the two.
C5_Witness ==
  /\ ncCall.called /\ ncCall.read_ok /\ ncCall.department = "SE"
  /\ Upcoming(classes["SE"], "CS101") /\ Upcoming(classes["SE"], "CS102")
  /\ classes["SE"]["CS101"].date = classes["SE"]["CS102"].date
  /\ classes["SE"]["CS101"] # classes["SE"]["CS102"]
  /\ Pos("CS102") < Pos("CS101")
  /\ classes["SE"]["CS103"] = [date |-> <<"2025-02-30">>, time |-> <<"13:00">>,
                               lecturer |-> <<"Lee">>]
  /\ today = <<2025, 3, 10>>
  /\ ncCall.result.course_code = <<"CS102">>

\* ---- C6 ---------------------------------------------------------------
\* A field of the registration body is absent or empty.
FieldMissing(data, f) == f \notin DOMAIN data \/ data[f] = ""

\* C6: POST /register-student with whatsapp or department absent or empty is
\* answered 400 with the fixed error body at once, without a store write;
\* with both present, and the store write returning, it sets
\* students/{whatsapp} to exactly {department: value}, changes no other
\* record and is answered 200.
C6_Register ==
  [][\A h \in Handlers :
       req'[h].endpoint = "register" =>
         LET data == req'[h].data
             missing == FieldMissing(data, "whatsapp")
                          \/ FieldMissing(data, "department")
         IN /\ missing =>
                 /\ pc'[h] = "done"
                 /\ resp'[h] = [status |-> 400,
                                body |-> "Missing whatsapp or department"]
            /\ ~missing => pc'[h] \in {"reg_set", "done"}
            /\ req'[h] # req[h] \/ pc[h] # "reg_set" =>
                 students' = students /\ classes' = classes
            /\ (req'[h] = req[h] /\ pc[h] = "reg_set" /\ pc'[h] = "done"
                  /\ loc'[h].faults = {}) =>
                 /\ students' = [students EXCEPT
                      ![data.whatsapp] = [department |-> data.department]]
                 /\ classes' = classes
                 /\ resp'[h] = [status |-> 200, body |-> "Student registered."]
    ]_vars

\* A registration replaced the record of a registered student; one with an
\* empty department would be refused.
C6_Witness ==
  \E h \in Handlers :
    /\ req[h].endpoint = "register" /\ pc[h] = "done"
    /\ req[h].data = [whatsapp |-> "s1", department |-> "SE"]
    /\ InitStudents["s1"] = [department |-> "CS"]
    /\ students["s1"] = [department |-> "SE"]
    /\ resp[h].status = 200

\* ---- C7 ---------------------------------------------------------------
\* The message of handler h is none of the admin-update, next-class and
\* course-list messages.
IsOtherMessage(h) ==
  /\ IsTextMessage(h)
  /\ ~(HasAdminKeyword(h) /\ admins[req[h].from] = "true")
  /\ Strip(req[h].body) \notin
       { <<"Next", SP, "Class">>, <<"My", SP, "Courses">>,
         <<"when", SP, "is", SP, "my", SP, "next", SP, "class?">> }

\* The stored details of the course code the message names in the sender's
\* resolved department, NoDoc when it names none.
CourseNamed(h) ==
  LET b == Strip(req[h].body) IN
  IF Len(b) = 1 /\ b[1] \in Codes THEN classes[loc[h].dept][b[1]] ELSE NoDoc

\* What the claim says of the answered request of handler h.
C7_Answered(h) ==
  (pc[h] = "done" /\ loc[h].faults \subseteq {"assist"})
  => /\ Len(sent[h]) = 1
     /\ sent[h][1].to = req[h].from
     /\ IF CourseNamed(h) # NoDoc
          THEN /\ ~loc[h].asked
               /\ sent[h][1].text =
                    <<"Course: ">> \o Strip(req[h].body)
                      \o <<"\nDate: ">> \o Get(CourseNamed(h), "date", <<"N/A">>)
                      \o <<"\nTime: ">> \o Get(CourseNamed(h), "time", <<"N/A">>)
                      \o <<"\nLecturer: ">>
                      \o Get(CourseNamed(h), "lecturer", <<"N/A">>)
        ELSE /\ loc[h].asked
             /\ sent[h][1].text =
                  IF "assist" \in loc[h].faults
                    THEN <<"Sorry, I could not process your request right now.">>
                  ELSE <<"Zibot", SP, "here">>

\* C7: a message that matches none of the first three branches, handled with
\* no store or send call raising, gets exactly one reply and writes no
\* record: the named course's date, time and lecturer, "N/A" for a missing
\* one, without a call of the assistant, when the text is a course code of
\* the sender's department; otherwise the assistant's answer, or the apology
\* when the assistant call raised.
C7_DetailOrAssistant ==
  [][\A h \in Handlers :
       (IsOtherMessage(h) /\ req'[h] = req[h])
       => /\ pc'[h] # pc[h] => students' = students /\ classes' = classes
          /\ C7_Answered(h)'
    ]_vars

\* ---- C8 ---------------------------------------------------------------
\* C8: no welcome message is ever sent and users/{id}/introduced is never
\* read or written.
C8_NoWelcome ==
  /\ usersOps = {}
  /\ \A s \in Senders : ~introduced[s]
  /\ \A h \in Handlers : \A i \in DOMAIN sent[h] : sent[h][i].text # WELCOME

\* The else branch, the last of the chain, has sent the assistant's answer
\* and returned.
C8_Witness ==
  \E h \in Handlers :
    /\ IsTextMessage(h) /\ pc[h] = "done"
    /\ loc[h].route = "assistant" /\ loc[h].faults = {}
    /\ sent[h] = <<Reply(h, <<"Zibot", SP, "here">>)>>
    /\ ~introduced[req[h].from]

\* ---- C9 ---------------------------------------------------------------
\* Handler h serves a complete admin command of an admin and its store write
\* has returned.
HasWritten(h) ==
  /\ IsTextMessage(h) /\ admins[req[h].from] = "true" /\ HasAdminKeyword(h)
  /\ Len(Tokens(h)) >= 5
  /\ pc[h] \in {"send", "done"}
  /\ "store" \notin loc[h].faults

Target(h) == <<Tokens(h)[2], Tokens(h)[3]>>

\* Whoever wrote a key, the record there is the whole triple of one writer;
\* a writer that met no failure has sent the confirmation of its own command
\* and nothing else.
C9_State ==
  /\ \A h1, h2 \in Handlers :
       (h1 # h2 /\ HasWritten(h1) /\ HasWritten(h2) /\ Target(h1) = Target(h2))
       => classes[Target(h1)[1]][Target(h1)[2]]
            \in {RecordGiven(h1), RecordGiven(h2)}
  /\ \A h \in Handlers :
       (HasWritten(h) /\ pc[h] = "done" /\ loc[h].faults = {})
       => sent[h] = <<Reply(h, <<"Schedule updated for ", Tokens(h)[3], ".">>)>>

\* C9: two admin-update handlers on the same (department, code) running in
\* parallel end last-write-wins on the whole record: each store write leaves
\* the record equal to the complete triple of the writing command, so the
\* record is at every moment the triple of the command that wrote last, never
\* a mixture, and each admin gets the confirmation of their own command.
C9_LastWriteWins ==
  [][/\ \A h \in Handlers :
          (pc[h] = "class_set" /\ pc'[h] = "send" /\ req'[h] = req[h]
             /\ "store" \notin loc'[h].faults)
          => classes'[Target(h)[1]][Target(h)[2]] = RecordGiven(h)
     /\ C9_State'
    ]_vars

\* Both handlers have written the same key with different triples before
\* either has replied; the record is the second command's.
C9_Witness ==
  /\ HasWritten("h1") /\ HasWritten("h2")
  /\ pc["h1"] = "send" /\ pc["h2"] = "send"
  /\ req["h1"].from = "a1" /\ req["h2"].from = "a2"
  /\ Target("h1") = Target("h2")
  /\ RecordGiven("h1") # RecordGiven("h2")
  /\ classes["SE"]["CS101"] = RecordGiven("h2")

\* ---- C10 --------------------------------------------------------------
\* The student document holds a department other than the default.
HasOtherDepartment(doc) ==
  "department" \in DOMAIN doc /\ doc.department # "SE"

\* C10: the webhook's default-assignment write happens only for a sender who
\* has no non-default department stored at the moment of the write, so a
\* department written by /register-student is never overwritten by a webhook
\* message.
C10_RegistrationKept ==
  [][\A h \in Handlers :
       (pc[h] = "auto_reg" /\ pc'[h] = "next_read" /\ req'[h] = req[h])
       => ~HasOtherDepartment(students[req[h].from])
    ]_vars

====
